---------------------------- MODULE Spec2Model ----------------------------
(***************************************************************************)
(* The lexical scanner of meriyah: nextToken / scanSingleToken             *)
(* (src/scanner/scan.ts), scanRegularExpression (src/scanner/regexp.ts)    *)
(* and the cursor helpers of src/scanner/common.ts, as a state machine     *)
(* over a ParserState.  One action, NextToken, is one call of nextToken    *)
(* with a context chosen by the caller.                                    *)
(*                                                                         *)
(* Code units are their UTF-16 numbers.  charCodeAt past the end of the    *)
(* source is NaN.  Offsets are 0-based as in the code; the TLA+ sequence   *)
(* `source' is 1-based, so unit i of the code is source[i + 1].            *)
(***************************************************************************)
EXTENDS Integers, Sequences, FiniteSets, TLC

\* ------------------------------------------------------------------ bounds

\* Longest source drawn from the line-terminator and the punctuator alphabets.
MaxLen == 3
\* Longest source drawn from the alphabet of erroneous units.
MaxErrorLen == 2
\* Longest run of regular-expression units following an opening `/'.
MaxRegExpLen == 4
\* Longest tail following one of the fixed prefixes.
MaxTail == 2
\* The longest run of units after an HTML comment that has a lead.
MaxHtmlTail == 2
\* The longest run of units after a `?'.
MaxQuestionTail == 2
\* The longest run of units after the opening `/' of a regular expression
\* with escapes, classes and line terminators.
MaxBodyLen == 4
\* The longest run of flag letters after a regular expression.
MaxFlags == 2
\* The longest run of units after the first unit of a punctuator.
MaxMunchTail == 3
\* Longest source drawn from the surrogate alphabet.
MaxSurrogateLen == 3
\* The code points drawn at each end of the two planes are this many apart.
CodePointSpan == 31
\* The longest run of units of a source scanned to its end under one context.
MaxScanLen == 2
\* The longest tail after a fixed prefix in such a source.
MaxScanTail == 1

\* ------------------------------------------------------- Chars (code units)

NaN == -1

Null == 0
LineFeed == 10
CarriageReturn == 13
Space == 32
Exclamation == 33
Hash == 35
Percent == 37
Ampersand == 38
LeftParen == 40
RightParen == 41
Asterisk == 42
Plus == 43
Hyphen == 45
Period == 46
Slash == 47
Zero == 48
Five == 53
Nine == 57
Semicolon == 59
LessThan == 60
EqualSign == 61
GreaterThan == 62
QuestionMark == 63
AtSign == 64
LeftBracket == 91
Backslash == 92
RightBracket == 93
Caret == 94
LowerA == 97
LowerD == 100
LowerG == 103
LowerI == 105
LowerM == 109
LowerS == 115
LowerU == 117
LowerX == 120
LowerY == 121
VerticalBar == 124
Delete == 127
NextLine == 133
NonBreakingSpace == 160
Ogham == 5760
EnQuad == 8192
ZeroWidthSpace == 8203
LineSeparator == 8232
ParagraphSeparator == 8233
NarrowNoBreakSpace == 8239
MathematicalSpace == 8287
IdeographicSpace == 12288
ZeroWidthNoBreakSpace == 65279
ByteOrderMark == 65279

\* The surrogate arithmetic of common.ts: (unit & 0xfc00) is 0xd800 for a high
\* surrogate and 0xdc00 for a low one; a pair is 0x10000 + ((hi & 0x3ff) << 10)
\* + (lo & 0x3ff).
SurrogateMask == 64512
HighSurrogate == 55296
LowSurrogate == 56320
SurrogateBits == 1023
SupplementaryBase == 65536
\* The pair of U+1F600, which is no identifier character.
EmojiHigh == 55357
EmojiLow == 56832

\* ------------------------------------------------------------------ Context

Module == "Module"
AllowRegExp == "AllowRegExp"
OptionsNext == "OptionsNext"
DisableWebCompat == "DisableWebCompat"

\* The context bits the scanner reads; a context is the set of bits set.
\* (OptionsRaw only adds the tokenRaw slice of a regular expression, an
\* output no operation reads back; it is left out.)
ContextFlags == {Module, AllowRegExp, OptionsNext, DisableWebCompat}
Contexts == SUBSET ContextFlags

\* ------------------------------------------------------------------- state

VARIABLES
  source,              \* the immutable code-unit buffer
  context,             \* the context of the latest nextToken call
  index,               \* parser.index
  nextCodePoint,       \* parser.nextCodePoint
  line,                \* parser.line
  column,              \* parser.column
  tokenPos,            \* parser.tokenPos
  startPos,            \* parser.startPos
  precedingLineBreak,  \* parser.precedingLineBreak (0 / 1)
  token,               \* parser.token
  tokenValue,          \* parser.tokenValue
  tokenRegExp,         \* parser.tokenRegExp
  reported,            \* the diagnostics the latest call handed to report()
  called,              \* history: nextToken has been called
  entryIndex,          \* history: parser.index when the latest call began
  entryLineColumn,     \* history: <<parser.line, parser.column>> when the latest
                       \* call began
  valuesKept,          \* history: the latest call left tokenValue and tokenRegExp
                       \* as they were
  entryCoherent,       \* history: the latest call began with index <= length and
                       \* nextCodePoint = source[index]
  iterations,          \* history: the loop iterations of the latest call, in order
  slowPath,            \* history: <<nextCodePoint>> as the latest call entered
                       \* scanIdentifierSlowPath, <<>> if it did not
  multiUnit,           \* history: the calls of consumeMultiUnitCodePoint in the
                       \* latest call: the cursor before, the cursor after, the result
  codePoint,           \* the argument of fromCodePoint
  units,               \* the string fromCodePoint returned (<<>> before the call)
  raw,                 \* history: the slices source[tokenPos..index] of the calls up
                       \* to the first EndOfSource, concatenated
  rawFromStart,        \* history: the slices source[startPos..index] of the same
                       \* calls, concatenated
  sawError,            \* history: some call so far returned Token.Error
  ended                \* history: some call so far returned Token.EndOfSource

vars == <<source, context, index, nextCodePoint, line, column, tokenPos, startPos,
          precedingLineBreak, token, tokenValue, tokenRegExp, reported,
          called, entryIndex, entryLineColumn, valuesKept, entryCoherent, iterations,
          slowPath, multiUnit, codePoint, units, raw, rawFromStart, sawError, ended>>

\* ------------------------------------------------------------ source access

\* Every sequence over S of length 0..n.
SeqsUpTo(S, n) == UNION {[1..k -> S] : k \in 0..n}

\* source.length
length == Len(source)

\* source.charCodeAt(i): NaN outside 0 .. length-1.
charCodeAt(i) == IF i >= 0 /\ i < Len(source) THEN source[i + 1] ELSE NaN

\* source.slice(from, to), for 0 <= from; both ends are clamped to length.
slice(from, to) ==
  LET hi == IF to > Len(source) THEN Len(source) ELSE to
  IN IF from >= hi THEN <<>> ELSE SubSeq(source, from + 1, hi)

\* ------------------------------------------------------- 32-bit bit operators

RECURSIVE BitAnd(_, _)
\* a & b on naturals.
BitAnd(a, b) ==
  IF a = 0 \/ b = 0 THEN 0
  ELSE (a % 2) * (b % 2) + 2 * BitAnd(a \div 2, b \div 2)

\* a | b on naturals.
BitOr(a, b) == a + b - BitAnd(a, b)

\* ------------------------------------------------------------ ParserState

\* The value of a field that was never assigned.  tokenValue is this, the
\* text of an identifier or a number ([text |-> units]) or the result of
\* validate ([regexp |-> ...]); tokenRegExp is this or [pattern, flags].
undefined == [undefined |-> TRUE]

\* The mutable fields of ParserState that one call reads and writes.
ParserOf(i, c, l, col) ==
  [index |-> i, nextCodePoint |-> c, line |-> l, column |-> col,
   tokenPos |-> tokenPos, precedingLineBreak |-> 0,
   tokenValue |-> tokenValue, tokenRegExp |-> tokenRegExp, reported |-> <<>>,
   iterations |-> <<>>, slowPath |-> <<>>, multiUnit |-> <<>>]

\* advance(parser): column++, nextCodePoint = source.charCodeAt(++index).
advance(p) ==
  [p EXCEPT !.column = @ + 1, !.index = @ + 1, !.nextCodePoint = charCodeAt(p.index + 1)]

\* report(parser, context, error): the diagnostic goes to the sink; control
\* returns to the caller, which then returns Token.Error itself.
report(p, error) == [p EXCEPT !.reported = Append(@, [error |-> error, params |-> <<>>])]

\* report(parser, context, error, param): the same, for a message with a
\* parameter.
reportWith(p, error, param) ==
  [p EXCEPT !.reported = Append(@, [error |-> error, params |-> <<param>>])]

\* History of the loops: one iteration of `loop' that began with index = from
\* has ended with the cursor where p has it; exit tells whether the iteration
\* left the loop (break, return or a failed loop test) or went on to the next.
iterate(p, loop, from, exit) ==
  [p EXCEPT !.iterations =
     Append(@, [loop |-> loop, from |-> from, to |-> p.index, exit |-> exit])]

\* String.fromCharCode(n) for one argument: the unit ToUint16(n).
fromCharCode(n) == n % 65536

\* fromCodePoint(codePoint): the units of the string; `>>> 10' is the
\* division by 1024, `& 0x3ff' keeps the low ten bits.
fromCodePoint(cp) ==
  IF cp <= 65535
  THEN <<fromCharCode(cp)>>
  ELSE <<fromCharCode(cp \div 1024), fromCharCode(BitAnd(cp, 1023))>>

\* The result of one pass through the body of the dispatcher loop: a token
\* kind returned to the caller, or Continue for the `continue' statements.
Continue == "continue"
Return(p, tok) == [parser |-> p, token |-> tok, lastIsCR |-> 0]
Again(p, cr) == [parser |-> p, token |-> Continue, lastIsCR |-> cr]

\* ------------------------------------------------------- character classes

\* firstCharKinds[c], for 0 <= c <= 127: the dispatch tag of an ASCII unit.
firstCharKinds(c) ==
  CASE c \in 0..8 -> "Error"
    [] c \in {9, 11, 12, 32} -> "WhiteSpace"
    [] c = 10 -> "LineFeed"
    [] c = 13 -> "CarriageReturn"
    [] c \in 14..31 -> "Error"
    [] c = 33 -> "Negate"
    [] c \in {34, 39} -> "StringLiteral"
    [] c = 35 -> "PrivateField"
    [] c = 36 -> "Identifier"
    [] c = 37 -> "Modulo"
    [] c = 38 -> "BitwiseAnd"
    [] c = 40 -> "LeftParen"
    [] c = 41 -> "RightParen"
    [] c = 42 -> "Multiply"
    [] c = 43 -> "Add"
    [] c = 44 -> "Comma"
    [] c = 45 -> "Subtract"
    [] c = 46 -> "Period"
    [] c = 47 -> "Divide"
    [] c = 48 -> "LeadingZero"
    [] c \in 49..57 -> "NumericLiteral"
    [] c = 58 -> "Colon"
    [] c = 59 -> "Semicolon"
    [] c = 60 -> "LessThan"
    [] c = 61 -> "Assign"
    [] c = 62 -> "GreaterThan"
    [] c = 63 -> "QuestionMark"
    [] c = 64 -> "Error"
    [] c \in 65..90 -> "Identifier"
    [] c = 91 -> "LeftBracket"
    [] c = 92 -> "UnicodeEscapeIdStart"
    [] c = 93 -> "RightBracket"
    [] c = 94 -> "BitwiseXor"
    [] c = 95 -> "Identifier"
    [] c = 96 -> "TemplateTail"
    [] c \in {104, 106, 107, 109, 111, 113, 117, 120} -> "Identifier"
    [] c \in (97..122) \ {104, 106, 107, 109, 111, 113, 117, 120} -> "IdentifierOrKeyword"
    [] c = 123 -> "LeftBrace"
    [] c = 124 -> "BitwiseOr"
    [] c = 125 -> "RightBrace"
    [] c = 126 -> "Complement"
    [] c = 127 -> "Error"

\* The tags the dispatcher returns as they are, after one advance.
SimpleTokens ==
  {"RightBrace", "LeftBrace", "Comma", "Colon", "Complement", "LeftParen",
   "RightParen", "Semicolon", "LeftBracket", "RightBracket", "Error"}

\* CR, LF, LS, PS.
IsLineTerminator(c) ==
  c \in {LineFeed, CarriageReturn, LineSeparator, ParagraphSeparator}

\* isExoticECMAScriptWhitespace(code)
isExoticECMAScriptWhitespace(code) ==
  \/ code = NonBreakingSpace
  \/ code = ZeroWidthNoBreakSpace
  \/ code = NextLine
  \/ code = Ogham
  \/ (code >= EnQuad /\ code <= ZeroWidthSpace)
  \/ code = NarrowNoBreakSpace
  \/ code = MathematicalSpace
  \/ code = IdeographicSpace
  \/ code = ByteOrderMark

AsciiLetters == (65..90) \cup (97..122)

\* (unicodeLookup[(c >>> 5) + 34816] >>> c) & 1: the ID_Start bitmap, which
\* holds the ASCII letters, `$' and `_'; of the units and pairs beyond ASCII
\* the model draws, U+10000 (LINEAR B SYLLABLE B008 A) is an identifier start.
IsIDStart(c) == c \in AsciiLetters \cup {36, 95, SupplementaryBase}

\* isIdentifierPart(c): ID_Continue, i.e. ID_Start with the decimal digits,
\* ZWNJ and ZWJ.  NaN is no identifier part.
isIdentifierPart(c) == IsIDStart(c) \/ c \in Zero..Nine \/ c \in {8204, 8205}

\* ------------------------------------------- scanners outside scan.ts

RECURSIVE skipSingleLineComment(_)
\* skipSingleLineComment(parser): consumes up to, not including, the next
\* LF, CR, LS or PS, or to the end of the source; leaving at a terminator it
\* sets precedingLineBreak.
skipSingleLineComment(p) ==
  IF p.index < length
  THEN IF IsLineTerminator(p.nextCodePoint)
       THEN [p EXCEPT !.precedingLineBreak = 1]
       ELSE skipSingleLineComment(advance(p))
  ELSE p

\* A line terminator inside a multi-line comment: line++, column = 0,
\* precedingLineBreak = 1; CR LF is one terminator.
commentNewLine(p) ==
  LET n == IF p.nextCodePoint = CarriageReturn /\ charCodeAt(p.index + 1) = LineFeed
           THEN 2 ELSE 1
  IN [p EXCEPT !.index = @ + n, !.nextCodePoint = charCodeAt(p.index + n),
               !.line = @ + 1, !.column = 0, !.precedingLineBreak = 1]

RECURSIVE skipMultiLineComment(_)
\* skipMultiLineComment(parser, context): consumes through the closing `*/';
\* state 1 when it was found, state 0 with UnterminatedComment reported when
\* the source ended first.
skipMultiLineComment(p) ==
  IF p.index < length
  THEN IF p.nextCodePoint = Asterisk
       THEN LET p1 == advance(p)
            IN IF p1.nextCodePoint = Slash
               THEN [parser |-> advance(p1), state |-> 1]
               ELSE skipMultiLineComment(p1)
       ELSE IF IsLineTerminator(p.nextCodePoint)
            THEN skipMultiLineComment(commentNewLine(p))
            ELSE skipMultiLineComment(advance(p))
  ELSE [parser |-> report(p, "UnterminatedComment"), state |-> 0]

RECURSIVE consumeIdentifierParts(_)
\* The run of identifier-part units from the cursor on.
consumeIdentifierParts(p) ==
  IF p.index < length /\ isIdentifierPart(p.nextCodePoint)
  THEN consumeIdentifierParts(advance(p))
  ELSE p

\* scanIdentifierOrKeyword(parser, context, canBeKeyword), fast path: the
\* contiguous ASCII letters, digits, `$' and `_'; the value is the slice.  No
\* keyword can be spelled with the letters the model draws.
scanIdentifierOrKeyword(p, canBeKeyword) ==
  LET q == consumeIdentifierParts(advance(p))
  IN Return([q EXCEPT !.tokenValue = [text |-> slice(p.tokenPos, q.index)]], "Identifier")

\* Escape.InvalidCodePoint: a result that is neither 0 nor 1.
InvalidCodePoint == -5

\* The cursor of a ParserState.
CursorOf(p) ==
  [index |-> p.index, nextCodePoint |-> p.nextCodePoint, line |-> p.line, column |-> p.column]

\* consumeMultiUnitCodePoint(parser, hi): [parser, result].
consumeMultiUnitCodePoint(p, hi) ==
  LET lo == charCodeAt(p.index + 1)
      scalar == SupplementaryBase + BitAnd(hi, SurrogateBits) * 1024 + BitAnd(lo, SurrogateBits)
      p1 == [p EXCEPT !.nextCodePoint = scalar]
      done(q, result) ==
        [parser |-> [q EXCEPT !.multiUnit =
                       Append(@, [before |-> CursorOf(p), after |-> CursorOf(q),
                                  hi |-> hi, result |-> result])],
         result |-> result]
  IN IF hi = NaN \/ BitAnd(hi, SurrogateMask) # HighSurrogate THEN done(p, 0)
     ELSE IF lo = NaN \/ BitAnd(lo, SurrogateMask) # LowSurrogate THEN done(p, 0)
     ELSE IF ~isIdentifierPart(scalar) THEN done(p1, InvalidCodePoint)
     ELSE done([p1 EXCEPT !.index = @ + 1], 1)

RECURSIVE scanIdentifierParts(_)
\* The loop of the slow path: a plain unit passing ID_Continue is taken as it
\* is, a surrogate pair is combined by consumeMultiUnitCodePoint and taken
\* when the scalar passes the table; a pair that fails it is InvalidCodePoint.
scanIdentifierParts(p) ==
  IF p.index < length
  THEN IF isIdentifierPart(p.nextCodePoint)
       THEN scanIdentifierParts(advance(p))
       ELSE LET c == consumeMultiUnitCodePoint(p, p.nextCodePoint)
            IN CASE c.result = 1 -> scanIdentifierParts(advance(c.parser))
                 [] c.result = 0 -> [parser |-> c.parser, ok |-> TRUE]
                 [] OTHER -> [parser |-> report(c.parser, "InvalidCodePoint"), ok |-> FALSE]
  ELSE [parser |-> p, ok |-> TRUE]

\* scanIdentifierSlowPath(parser, context, '', 0): the units from the cursor
\* on that pass the loop; the value is their text.
scanIdentifierSlowPath(p) ==
  LET l == scanIdentifierParts([p EXCEPT !.slowPath = <<p.nextCodePoint>>])
      q == l.parser
  IN IF l.ok
     THEN Return([q EXCEPT !.tokenValue = [text |-> slice(p.tokenPos, q.index)]], "Identifier")
     ELSE Return(q, "Error")

RECURSIVE consumeDigits(_)
\* The run of decimal digits from the cursor on.
consumeDigits(p) ==
  IF p.index < length /\ p.nextCodePoint \in Zero..Nine
  THEN consumeDigits(advance(p))
  ELSE p

\* scanNumber(parser, context, 0, isFloat): decimal digits, then (unless the
\* literal began with the dot) an optional fraction.
scanNumber(p, isFloat) ==
  LET q == consumeDigits(p)
      r == IF isFloat = 0 /\ q.nextCodePoint = Period THEN consumeDigits(advance(q)) ELSE q
  IN Return([r EXCEPT !.tokenValue = [text |-> slice(p.tokenPos, r.index)]], "NumericLiteral")

\* scanUnicodeEscapeIdStart(parser, context), on a `\' that no `u' follows:
\* InvalidUnicodeEscape, with the cursor left on the `\'.
scanUnicodeEscapeIdStart(p) == Return(report(p, "InvalidUnicodeEscape"), "Error")

\* scanLeadingZero(parser, context, char): a literal that begins with `0',
\* scanned as the decimal literal it is over the digits of the sources.
scanLeadingZero(p) == scanNumber(p, 0)

\* ----------------------------------------------------------- regexp.ts

\* RegexState
Escape == 1
Class == 2

\* RegexFlags
IgnoreCase == 1
Global == 2
Multiline == 4
Sticky == 8
Unicode == 16
DotAll == 12

RECURSIVE scanRegExpBody(_, _)
\* The body loop with `[' and `]' taken for ordinary units.
scanRegExpBodyNoClass(p, preparseState) ==
  LET ch == p.nextCodePoint
      p1 == advance(p)
      escaped == BitAnd(preparseState, Escape) # 0
      state1 ==
        IF escaped THEN preparseState - BitAnd(preparseState, Escape)
        ELSE IF ch = Backslash THEN BitOr(preparseState, Escape) ELSE preparseState
  IN IF ~escaped /\ ch = Slash /\ preparseState = 0
     THEN [parser |-> p1, closed |-> TRUE]
     ELSE IF ~escaped /\ IsLineTerminator(ch)
     THEN [parser |-> report(p1, "UnterminatedRegExp"), closed |-> FALSE]
     ELSE IF p1.index >= length
     THEN [parser |-> report(p1, "UnterminatedRegExp"), closed |-> FALSE]
     ELSE scanRegExpBody(p1, state1)

\* The body loop with line terminators taken for ordinary units.
scanRegExpBodyOverLines(p, preparseState) ==
  LET ch == p.nextCodePoint
      p1 == advance(p)
      escaped == BitAnd(preparseState, Escape) # 0
      state1 ==
        IF escaped THEN preparseState - BitAnd(preparseState, Escape)
        ELSE CASE ch = Backslash -> BitOr(preparseState, Escape)
               [] ch = LeftBracket -> BitOr(preparseState, Class)
               [] ch = RightBracket -> BitAnd(preparseState, Escape)
               [] OTHER -> preparseState
  IN IF ~escaped /\ ch = Slash /\ preparseState = 0
     THEN [parser |-> p1, closed |-> TRUE]
     ELSE IF p1.index >= length
     THEN [parser |-> report(p1, "UnterminatedRegExp"), closed |-> FALSE]
     ELSE scanRegExpBody(p1, state1)

\* The body loop of scanRegularExpression, entered with the cursor just past
\* the opening `/': closed |-> TRUE with the cursor past the closing `/', or
\* closed |-> FALSE with UnterminatedRegExp reported.
scanRegExpBody(p, preparseState) ==
  LET ch == p.nextCodePoint
      p1 == advance(p)
      escaped == BitAnd(preparseState, Escape) # 0
      state1 ==
        IF escaped THEN preparseState - BitAnd(preparseState, Escape)
        ELSE CASE ch = Backslash -> BitOr(preparseState, Escape)
               [] ch = LeftBracket -> BitOr(preparseState, Class)
               [] ch = RightBracket -> BitAnd(preparseState, Escape)
               [] OTHER -> preparseState
      left == iterate(p1, "body", p.index, TRUE)
  IN IF ~escaped /\ ch = Slash /\ preparseState = 0
     THEN [parser |-> left, closed |-> TRUE]
     ELSE IF ~escaped /\ IsLineTerminator(ch)
     THEN [parser |-> report(left, "UnterminatedRegExp"), closed |-> FALSE]
     ELSE IF p1.index >= length
     THEN [parser |-> report(left, "UnterminatedRegExp"), closed |-> FALSE]
     ELSE scanRegExpBody(iterate(p1, "body", p.index, FALSE), state1)

\* One flag letter of the flag loop: `g' reports a duplicate and goes on, the
\* other letters report and return Token.Error.
\* [parser, mask, ok]: ok |-> FALSE is the `return Token.Error'.
scanRegExpFlag(p, mask, char) ==
  LET dup(bit, letter) ==
        IF BitAnd(mask, bit) # 0
        THEN [parser |-> reportWith(p, "DuplicateRegExpFlag", letter), mask |-> mask, ok |-> FALSE]
        ELSE [parser |-> p, mask |-> BitOr(mask, bit), ok |-> TRUE]
  IN CASE char = LowerG ->
            [parser |-> IF BitAnd(mask, Global) # 0
                        THEN reportWith(p, "DuplicateRegExpFlag", "g") ELSE p,
             mask |-> BitOr(mask, Global), ok |-> TRUE]
       [] char = LowerI -> dup(IgnoreCase, "i")
       [] char = LowerM -> dup(Multiline, "m")
       [] char = LowerU -> dup(Unicode, "u")
       [] char = LowerY -> dup(Sticky, "y")
       [] char = LowerS -> dup(DotAll, "s")
       [] OTHER -> [parser |-> report(p, "UnexpectedTokenRegExpFlag"), mask |-> mask, ok |-> FALSE]

RECURSIVE scanRegExpFlags(_, _)
\* The flag loop: while (isIdentifierPart(char)) { switch ...; char = advance }.
scanRegExpFlags(p, mask) ==
  IF isIdentifierPart(p.nextCodePoint)
  THEN LET r == scanRegExpFlag(p, mask, p.nextCodePoint)
       IN IF r.ok
          THEN scanRegExpFlags(iterate(advance(r.parser), "flags", p.index, FALSE), r.mask)
          ELSE [parser |-> iterate(r.parser, "flags", p.index, TRUE), ok |-> FALSE]
  ELSE [parser |-> iterate(p, "flags", p.index, TRUE), ok |-> TRUE]

RECURSIVE GroupsBalanced(_, _, _, _)
\* Whether the parentheses of pattern[i..] that are neither escaped nor in a
\* class pair up, starting at nesting `depth'.
GroupsBalanced(pattern, i, depth, state) ==
  IF i > Len(pattern) THEN depth = 0
  ELSE LET ch == pattern[i]
       IN IF BitAnd(state, Escape) # 0 THEN GroupsBalanced(pattern, i + 1, depth, state - Escape)
          ELSE IF ch = Backslash THEN GroupsBalanced(pattern, i + 1, depth, BitOr(state, Escape))
          ELSE IF BitAnd(state, Class) # 0
          THEN GroupsBalanced(pattern, i + 1, depth, IF ch = RightBracket THEN 0 ELSE state)
          ELSE IF ch = LeftBracket THEN GroupsBalanced(pattern, i + 1, depth, Class)
          ELSE IF ch = LeftParen THEN GroupsBalanced(pattern, i + 1, depth + 1, state)
          ELSE IF ch = RightParen THEN depth > 0 /\ GroupsBalanced(pattern, i + 1, depth - 1, state)
          ELSE GroupsBalanced(pattern, i + 1, depth, state)

\* `RegExp(pattern)' throws: the host engine rejects a pattern with an
\* unterminated or unopened group.
HostRejectsPattern(pattern) == ~GroupsBalanced(pattern, 1, 0, 0)

\* `new RegExp(pattern, flags)' throws: the host engine rejects a flag that
\* is repeated or is none of d g i m s u v y.
HostRejectsFlags(flags) ==
  \/ \E i \in 1..Len(flags) : flags[i] \notin {100, 103, 105, 109, 115, 117, 118, 121}
  \/ \E i, j \in 1..Len(flags) : i # j /\ flags[i] = flags[j]

\* validate(parser, context, pattern, flags): the tokenValue, with the
\* diagnostic of a rejected pattern reported.
validate(p, pattern, flags) ==
  IF HostRejectsPattern(pattern)
  THEN [report(p, "UnterminatedRegExp") EXCEPT !.tokenValue = [regexp |-> "Error"]]
  ELSE IF HostRejectsFlags(flags)
  THEN [p EXCEPT !.tokenValue = [regexp |-> "null"]]
  ELSE [p EXCEPT !.tokenValue = [regexp |-> "RegExp"]]

\* scanRegularExpression(parser, context), entered with the cursor just past
\* the opening `/'.
scanRegularExpression(p, ctx) ==
  LET bodyStart == p.index
      body == scanRegExpBody(p, 0)
      bodyEnd == body.parser.index - 1
      flagStart == body.parser.index
      fl == scanRegExpFlags(body.parser, 0)
      q == fl.parser
      flags == slice(flagStart, q.index)
      pattern == slice(bodyStart, bodyEnd)
      q1 == [q EXCEPT !.tokenRegExp = [pattern |-> pattern, flags |-> flags]]
      q2 == validate(q1, pattern, flags)
  IN IF ~body.closed THEN Return(body.parser, "Error")
     ELSE IF ~fl.ok THEN Return(q, "Error")
     ELSE Return(q2, "RegularExpression")

\* -------------------------------------------- scan.ts: the punctuator cases

\* case Token.CarriageReturn falls through into case Token.LineFeed; this is
\* the LineFeed block, entered with lastIsCR as the CarriageReturn case (or
\* the loop) left it.
scanLineFeed(p, lastIsCR) ==
  LET p1 == [p EXCEPT !.precedingLineBreak = 1, !.index = @ + 1,
                      !.nextCodePoint = charCodeAt(p.index + 1)]
      p2 == IF lastIsCR = 0 THEN [p1 EXCEPT !.column = 0, !.line = @ + 1] ELSE p1
  IN Again(p2, 0)

\* case Token.CarriageReturn
scanCarriageReturn(p) ==
  scanLineFeed([p EXCEPT !.column = 0, !.line = @ + 1], 1)

\* case Token.Period: `.', `...', `.123'
scanPeriod(p) ==
  LET p1 == advance(p)
      next == p1.nextCodePoint
      idx == p1.index + 1
  IN IF next >= Zero /\ next <= Nine THEN scanNumber(p1, 1)
     ELSE IF next = Period /\ idx < length /\ charCodeAt(idx) = Period
     THEN Return([p1 EXCEPT !.column = @ + 2, !.index = @ + 2,
                            !.nextCodePoint = charCodeAt(p1.index + 2)], "Ellipsis")
     ELSE Return(p1, "Period")

\* case Token.LessThan: `<', `<=', `<<', `<<=', `<!--'
scanLessThan(p) ==
  LET p1 == advance(p)
  IN IF p1.index < length
     THEN IF p1.nextCodePoint = LessThan
          THEN LET p2 == advance(p1)
               IN IF p2.nextCodePoint = EqualSign
                  THEN Return([p2 EXCEPT !.index = @ + 1], "ShiftLeftAssign")
                  ELSE Return(p2, "ShiftLeft")
          ELSE IF p1.nextCodePoint = EqualSign
          THEN Return(advance(p1), "LessThanOrEqual")
          ELSE IF /\ p1.nextCodePoint = Exclamation
                  /\ charCodeAt(p1.index + 2) = Hyphen
                  /\ charCodeAt(p1.index + 1) = Hyphen
          THEN Again(skipSingleLineComment(
                       [p1 EXCEPT !.index = @ + 2, !.column = @ + 3]), 0)
          ELSE Return(p1, "LessThan")
     ELSE Return(p1, "LessThan")

\* case Token.QuestionMark: `?', `??', `?.'
scanQuestionMark(p, ctx) ==
  LET p1 == advance(p)
      ch == p1.nextCodePoint
      after == charCodeAt(p1.index + 1)
      ch2 == IF after = NaN THEN 0 ELSE after
  IN IF OptionsNext \in ctx /\ p1.nextCodePoint = QuestionMark
     THEN Return(advance(p1), "Coalesce")
     ELSE IF OptionsNext \in ctx /\ ch = Period /\ (ch2 > Nine \/ ch2 <= Zero)
     THEN Return(advance(p1), "QuestionMarkPeriod")
     ELSE Return(p1, "QuestionMark")

\* case Token.Assign: `=', `==', `===', `=>'
scanAssign(p) ==
  LET p1 == advance(p)
      char == p1.nextCodePoint
  IN IF p1.index >= length THEN Return(p1, "Assign")
     ELSE IF char = EqualSign
     THEN LET p2 == advance(p1)
          IN IF p2.nextCodePoint = EqualSign
             THEN Return(advance(p2), "StrictEqual")
             ELSE Return(p2, "LooseEqual")
     ELSE IF char = GreaterThan THEN Return(advance(p1), "Arrow")
     ELSE Return(p1, "Assign")

\* case Token.Negate: `!', `!=', `!=='
scanNegate(p) ==
  LET p1 == advance(p)
      p2 == advance(p1)
  IN IF p1.nextCodePoint # EqualSign THEN Return(p1, "Negate")
     ELSE IF p2.nextCodePoint # EqualSign THEN Return(p2, "LooseNotEqual")
     ELSE Return(advance(p2), "StrictNotEqual")

\* case Token.Modulo and case Token.BitwiseXor: `%', `%=' and `^', `^='
scanWithAssign(p, plain, assign) ==
  LET p1 == advance(p)
  IN IF p1.nextCodePoint # EqualSign THEN Return(p1, plain)
     ELSE Return(advance(p1), assign)

\* case Token.Multiply: `*', `**', `*=', `**='
scanMultiply(p) ==
  LET p1 == advance(p)
      char == p1.nextCodePoint
      p2 == advance(p1)
  IN IF p1.index >= length THEN Return(p1, "Multiply")
     ELSE IF char = EqualSign THEN Return(p2, "MultiplyAssign")
     ELSE IF char # Asterisk THEN Return(p1, "Multiply")
     ELSE IF p2.nextCodePoint # EqualSign THEN Return(p2, "Exponentiate")
     ELSE Return(advance(p2), "ExponentiateAssign")

\* case Token.Add, case Token.BitwiseOr, case Token.BitwiseAnd: the unit
\* alone, doubled, or followed by `='.
scanDoubled(p, unit, plain, doubled, assign) ==
  LET p1 == advance(p)
      char == p1.nextCodePoint
  IN IF p1.index >= length THEN Return(p1, plain)
     ELSE IF char = unit THEN Return(advance(p1), doubled)
     ELSE IF char = EqualSign THEN Return(advance(p1), assign)
     ELSE Return(p1, plain)

\* case Token.Subtract: `-', `--', `-=', `-->'
scanSubtract(p, ctx, isStartOfLine) ==
  LET p1 == advance(p)
      char == p1.nextCodePoint
      p2 == advance(p1)
  IN IF p1.index >= length THEN Return(p1, "Subtract")
     ELSE IF char = Hyphen
     THEN IF /\ Module \notin ctx
             /\ (p2.precedingLineBreak # 0 \/ isStartOfLine)
             /\ p2.nextCodePoint = GreaterThan
          THEN IF DisableWebCompat \in ctx
               THEN Return(report(p2, "HtmlCommentInWebCompat"), "Error")
               ELSE Again(skipSingleLineComment(p2), 0)
          ELSE Return(p2, "Decrement")
     ELSE IF char = EqualSign THEN Return(p2, "SubtractAssign")
     ELSE Return(p1, "Subtract")

\* case Token.Divide with `/=' tested before AllowRegExp.
scanDivideAssignFirst(p, ctx) ==
  LET p1 == advance(p)
      char == p1.nextCodePoint
      p2 == advance(p1)
      comment == skipMultiLineComment(p2)
  IN IF char = Slash THEN Again(skipSingleLineComment(p2), 0)
     ELSE IF char = Asterisk
     THEN IF comment.state < 1 THEN Return(comment.parser, "Error")
          ELSE Again(comment.parser, 0)
     ELSE IF char = EqualSign THEN Return(p2, "DivideAssign")
     ELSE IF AllowRegExp \in ctx THEN scanRegularExpression(p1, ctx)
     ELSE Return(p1, "Divide")

\* case Token.Divide: `/', `/=', comments, regular expressions
scanDivide(p, ctx) ==
  LET p1 == advance(p)
      char == p1.nextCodePoint
      p2 == advance(p1)
      comment == skipMultiLineComment(p2)
  IN IF char = Slash THEN Again(skipSingleLineComment(p2), 0)
     ELSE IF char = Asterisk
     THEN IF comment.state < 1 THEN Return(comment.parser, "Error")
          ELSE Again(comment.parser, 0)
     ELSE IF AllowRegExp \in ctx THEN scanRegularExpression(p1, ctx)
     ELSE IF char = EqualSign THEN Return(p2, "DivideAssign")
     ELSE Return(p1, "Divide")

\* case Token.GreaterThan without the test for the `=' of `>>>='.
scanGreaterThanShort(p) ==
  LET p1 == advance(p)
      char == p1.nextCodePoint
      p2 == advance(p1)
      p3 == advance(p2)
  IN IF p1.index >= length THEN Return(p1, "GreaterThan")
     ELSE IF char = EqualSign THEN Return(p2, "GreaterThanOrEqual")
     ELSE IF char # GreaterThan THEN Return(p1, "GreaterThan")
     ELSE IF p2.nextCodePoint = GreaterThan THEN Return(p3, "LogicalShiftRight")
     ELSE IF p2.nextCodePoint = EqualSign THEN Return(p3, "ShiftRightAssign")
     ELSE Return(p2, "ShiftRight")

\* case Token.GreaterThan: `>', `>=', `>>', `>>>', `>>=', `>>>='
scanGreaterThan(p) ==
  LET p1 == advance(p)
      char == p1.nextCodePoint
      p2 == advance(p1)
      p3 == advance(p2)
  IN IF p1.index >= length THEN Return(p1, "GreaterThan")
     ELSE IF char = EqualSign THEN Return(p2, "GreaterThanOrEqual")
     ELSE IF char # GreaterThan THEN Return(p1, "GreaterThan")
     ELSE IF p2.nextCodePoint = GreaterThan
     THEN IF p3.nextCodePoint # EqualSign THEN Return(p3, "LogicalShiftRight")
          ELSE Return(advance(p3), "LogicalShiftRightAssign")
     ELSE IF p2.nextCodePoint = EqualSign THEN Return(p3, "ShiftRightAssign")
     ELSE Return(p2, "ShiftRight")

\* ------------------------------------------------ scan.ts: the dispatcher

\* Lines 490-522: a unit above 0x7e, or an ASCII unit whose tag has no case
\* in the switch (`#', tagged PrivateField).
scanNonTable(p, char) ==
  LET isHighSurrogate == char >= 0 /\ BitAnd(char, 64512) = 55296
      isLowSurrogate == char >= 0 /\ BitAnd(char, 64512) = 56320
      scalar == BitOr(BitOr(BitAnd(char, 1023) * 1024, BitAnd(char, 1023)), 65536)
  IN IF char \in {LineSeparator, ParagraphSeparator}
     THEN Again([p EXCEPT !.precedingLineBreak = 1, !.index = @ + 1,
                          !.nextCodePoint = charCodeAt(p.index + 1),
                          !.column = 0, !.line = @ + 1], 0)
     ELSE IF isHighSurrogate \/ IsIDStart(char)
     THEN IF isLowSurrogate
          THEN IF ~isIdentifierPart(scalar)
               THEN Return(report(p, "InvalidSMPCharacter"), "Error")
               ELSE scanIdentifierSlowPath(
                      [p EXCEPT !.index = @ + 1, !.nextCodePoint = scalar, !.column = @ + 1])
          ELSE scanIdentifierSlowPath(p)
     ELSE IF isExoticECMAScriptWhitespace(char) THEN Again(advance(p), 0)
     ELSE Return(report(p, "InvalidCharacter"), "Error")

\* The switch over firstCharKinds[char], for char <= 0x7e.
scanTable(p, ctx, char, lastIsCR, isStartOfLine) ==
  LET tag == firstCharKinds(char)
  IN CASE tag \in SimpleTokens -> Return(advance(p), tag)
       [] tag = "WhiteSpace" -> Again(advance(p), lastIsCR)
       [] tag = "CarriageReturn" -> scanCarriageReturn(p)
       [] tag = "LineFeed" -> scanLineFeed(p, lastIsCR)
       [] tag = "IdentifierOrKeyword" -> scanIdentifierOrKeyword(p, 1)
       [] tag = "Identifier" -> scanIdentifierOrKeyword(p, 0)
       [] tag = "NumericLiteral" -> scanNumber(p, 0)
       [] tag = "LeadingZero" -> scanLeadingZero(p)
       [] tag = "UnicodeEscapeIdStart" -> scanUnicodeEscapeIdStart(p)
       [] tag = "Period" -> scanPeriod(p)
       [] tag = "LessThan" -> scanLessThan(p)
       [] tag = "QuestionMark" -> scanQuestionMark(p, ctx)
       [] tag = "Assign" -> scanAssign(p)
       [] tag = "Negate" -> scanNegate(p)
       [] tag = "Modulo" -> scanWithAssign(p, "Modulo", "ModuloAssign")
       [] tag = "Multiply" -> scanMultiply(p)
       [] tag = "BitwiseXor" -> scanWithAssign(p, "BitwiseXor", "BitwiseXorAssign")
       [] tag = "Add" -> scanDoubled(p, Plus, "Add", "Increment", "AddAssign")
       [] tag = "Subtract" -> scanSubtract(p, ctx, isStartOfLine)
       [] tag = "Divide" -> scanDivide(p, ctx)
       [] tag = "BitwiseOr" ->
            scanDoubled(p, VerticalBar, "BitwiseOr", "LogicalOr", "BitwiseOrAssign")
       [] tag = "GreaterThan" -> scanGreaterThan(p)
       [] tag = "BitwiseAnd" ->
            scanDoubled(p, Ampersand, "BitwiseAnd", "LogicalAnd", "BitwiseAndAssign")
       [] tag = "PrivateField" -> scanNonTable(p, char)

\* The largest unit looked up in firstCharKinds.
MaxTableChar == 126

\* One pass through the body of the loop of scanSingleToken.
dispatch(p, ctx, lastIsCR, isStartOfLine) ==
  LET q == [p EXCEPT !.tokenPos = p.index]
      char == q.nextCodePoint
  IN IF char # NaN /\ char <= MaxTableChar
     THEN scanTable(q, ctx, char, lastIsCR, isStartOfLine)
     ELSE scanNonTable(q, char)

RECURSIVE scanSingleToken(_, _, _, _)
\* scanSingleToken with the loop left one unit early: `index < length - 1'.
scanSingleTokenStopsEarly(p, ctx, lastIsCR, isStartOfLine) ==
  IF p.index < length - 1
  THEN LET r == dispatch(p, ctx, lastIsCR, isStartOfLine)
       IN IF r.token = Continue
          THEN scanSingleToken(r.parser, ctx, r.lastIsCR, isStartOfLine)
          ELSE r
  ELSE Return(p, "EndOfSource")

\* scanSingleToken(parser, context): lastIsCR and isStartOfLine are its locals.
scanSingleToken(p, ctx, lastIsCR, isStartOfLine) ==
  IF p.index < length
  THEN LET r == dispatch(p, ctx, lastIsCR, isStartOfLine)
       IN IF r.token = Continue
          THEN scanSingleToken(iterate(r.parser, "dispatcher", p.index, FALSE),
                               ctx, r.lastIsCR, isStartOfLine)
          ELSE r
  ELSE Return(p, "EndOfSource")

\* ------------------------------------------------------------- the sources

\* Whitespace, the four line terminators and a token.
LineUnits == {Space, LineFeed, CarriageReturn, LineSeparator, ParagraphSeparator, Semicolon}
\* Units tagged Error, `#', U+007F, a unit beyond ASCII that is neither an
\* identifier start nor whitespace, NBSP, and two tokens.
ErrorUnits == {Null, Hash, AtSign, Delete, 128, NonBreakingSpace,
               Semicolon, Period}
\* The punctuators of the HTML comments, of `<<=' and of the two comments.
PunctUnits == {LessThan, EqualSign, Exclamation, Hyphen, GreaterThan, Slash,
               Asterisk, LineFeed}
\* A regular expression with flags g and i, and a group the host rejects.
RegExpUnits == {Slash, LowerG, LowerI, LeftParen}

\* "<<=", "<!--", "...", "-->"
Prefixes ==
  {<<LessThan, LessThan, EqualSign>>, <<LessThan, Exclamation, Hyphen, Hyphen>>,
   <<Period, Period, Period>>, <<Hyphen, Hyphen, GreaterThan>>}
TailUnits == {Semicolon, Space, LineFeed, EqualSign, GreaterThan}

\* What precedes an HTML comment on its line: nothing, a token, a token and
\* a line terminator, whitespace, the start of a regular expression that a
\* line terminator cuts short, and `<<=' with a line terminator.
LineLeads ==
  {<<>>, <<Semicolon>>, <<Semicolon, LineFeed>>, <<Space>>, <<LineFeed, Space>>,
   <<Semicolon, Space>>, <<Slash, LowerG, LineFeed>>,
   <<LessThan, LessThan, EqualSign, LineFeed>>}
\* "<!--", "-->"
HtmlComments ==
  {<<LessThan, Exclamation, Hyphen, Hyphen>>, <<Hyphen, Hyphen, GreaterThan>>}
HtmlSources ==
  {lead \o html \o tail :
     lead \in LineLeads, html \in HtmlComments, tail \in SeqsUpTo({Semicolon, LineFeed}, MaxHtmlTail)}

\* What follows a `?': `?', `.', the digits 0, 5 and 9, and a token.
QuestionUnits == {QuestionMark, Period, Zero, Five, Nine, Semicolon}
QuestionSources ==
  {<<QuestionMark>> \o s : s \in SeqsUpTo(QuestionUnits, MaxQuestionTail)}

\* The units that delimit the body of a regular expression: `/', `\', `[',
\* `]', a line terminator, and a letter that is a flag as well.
BodyUnits == {Slash, Backslash, LeftBracket, RightBracket, LineFeed, LowerG}
BodySources == {<<Slash>> \o s : s \in SeqsUpTo(BodyUnits, MaxBodyLen)}

\* The seven flag letters of the specification and a letter that is no flag.
FlagUnits == {LowerG, LowerI, LowerM, LowerU, LowerY, LowerS, LowerD, LowerX}
\* `/a/' and a run of flag letters.
FlagSources == {<<Slash, LowerA, Slash>> \o f : f \in SeqsUpTo(FlagUnits, MaxFlags)}

\* The first units of the punctuator families: = ! % * ^ + | > & <
MunchLeads ==
  {EqualSign, Exclamation, Percent, Asterisk, Caret, Plus, VerticalBar, GreaterThan,
   Ampersand, LessThan}
\* A first unit, and a run of that unit, `=', `>' and a token.
MunchSources ==
  UNION {{<<u>> \o s : s \in SeqsUpTo({u, EqualSign, GreaterThan, Semicolon}, MaxMunchTail)} :
           u \in MunchLeads}

\* The two halves of U+10000 and of U+1F600, a letter and a token.
SurrogateUnits == {HighSurrogate, LowSurrogate, EmojiHigh, EmojiLow, LowerA, Semicolon}
SurrogateSources == SeqsUpTo(SurrogateUnits, MaxSurrogateLen)

TokenSources == SeqsUpTo(LineUnits, MaxLen) \cup SeqsUpTo(ErrorUnits, MaxErrorLen)

Sources ==
  TokenSources \cup SeqsUpTo(PunctUnits, MaxLen)
    \cup {<<Slash>> \o s : s \in SeqsUpTo(RegExpUnits, MaxRegExpLen)}
    \cup {pre \o tail : pre \in Prefixes, tail \in SeqsUpTo(TailUnits, MaxTail)}
    \cup HtmlSources \cup QuestionSources \cup BodySources \cup FlagSources
    \cup MunchSources

\* ------------------------------------------------------------ the machine

\* A ParserState just constructed over a source drawn from S; fromCodePoint
\* is not called.
InitOver(S) ==
  /\ codePoint = 0
  /\ units = <<>>
  /\ source \in S
  /\ context = {}
  /\ index = 0
  /\ nextCodePoint = charCodeAt(0)
  /\ line = 1
  /\ column = 0
  /\ tokenPos = 0
  /\ startPos = 0
  /\ precedingLineBreak = 0
  /\ token = "EndOfSource"
  /\ tokenValue = undefined
  /\ tokenRegExp = undefined
  /\ reported = <<>>
  /\ called = FALSE
  /\ entryIndex = 0
  /\ entryLineColumn = <<1, 0>>
  /\ valuesKept = TRUE
  /\ entryCoherent = TRUE
  /\ iterations = <<>>
  /\ slowPath = <<>>
  /\ multiUnit = <<>>
  /\ raw = <<>>
  /\ rawFromStart = <<>>
  /\ sawError = FALSE
  /\ ended = FALSE

Init == InitOver(Sources)

\* nextToken(parser, context)
NextToken(ctx) ==
  \E r \in {scanSingleToken(ParserOf(index, nextCodePoint, line, column), ctx, 0, index = 0)} :
  LET p == r.parser
  IN /\ context' = ctx
     /\ startPos' = index
     /\ index' = p.index
     /\ nextCodePoint' = p.nextCodePoint
     /\ line' = p.line
     /\ column' = p.column
     /\ tokenPos' = p.tokenPos
     /\ precedingLineBreak' = p.precedingLineBreak
     /\ token' = r.token
     /\ tokenValue' = p.tokenValue
     /\ tokenRegExp' = p.tokenRegExp
     /\ reported' = p.reported
     /\ called' = TRUE
     /\ entryIndex' = index
     /\ entryLineColumn' = <<line, column>>
     /\ valuesKept' = (p.tokenValue = tokenValue /\ p.tokenRegExp = tokenRegExp)
     /\ entryCoherent' = (index <= length /\ nextCodePoint = charCodeAt(index))
     /\ iterations' = p.iterations
     /\ slowPath' = p.slowPath
     /\ multiUnit' = p.multiUnit
     /\ raw' = IF ended THEN raw ELSE raw \o slice(p.tokenPos, p.index)
     /\ rawFromStart' = IF ended THEN rawFromStart ELSE rawFromStart \o slice(startPos', p.index)
     /\ sawError' = (sawError \/ r.token = "Error")
     /\ ended' = (ended \/ r.token = "EndOfSource")
     /\ UNCHANGED <<source, codePoint, units>>

Next == \E ctx \in Contexts : NextToken(ctx)

Spec == Init /\ [][Next]_vars

\* The sources that scan.ts scans by itself: whitespace, line terminators,
\* one-unit tokens and erroneous units.
SpecTokens == InitOver(TokenSources) /\ [][Next]_vars

\* The largest code point, U+10FFFF.
MaxCodePoint == 1114111

\* The code points at the two ends of the basic plane and of the
\* supplementary planes.
CodePoints ==
  (0..CodePointSpan) \cup ((SupplementaryBase - 1 - CodePointSpan)..(SupplementaryBase - 1))
    \cup (SupplementaryBase..(SupplementaryBase + CodePointSpan))
    \cup ((MaxCodePoint - CodePointSpan)..MaxCodePoint)

\* A code point is drawn and no string made of it yet; the scanner is idle
\* over the empty source.
InitFromCodePoint ==
  /\ codePoint \in CodePoints
  /\ units = <<>>
  /\ source = <<>>
  /\ context = {}
  /\ index = 0
  /\ nextCodePoint = NaN
  /\ line = 1
  /\ column = 0
  /\ tokenPos = 0
  /\ startPos = 0
  /\ precedingLineBreak = 0
  /\ token = "EndOfSource"
  /\ tokenValue = undefined
  /\ tokenRegExp = undefined
  /\ reported = <<>>
  /\ called = FALSE
  /\ entryIndex = 0
  /\ entryLineColumn = <<1, 0>>
  /\ valuesKept = TRUE
  /\ entryCoherent = TRUE
  /\ iterations = <<>>
  /\ slowPath = <<>>
  /\ multiUnit = <<>>
  /\ raw = <<>>
  /\ rawFromStart = <<>>
  /\ sawError = FALSE
  /\ ended = FALSE

\* units = fromCodePoint(codePoint)
FromCodePoint ==
  /\ units = <<>>
  /\ units' = fromCodePoint(codePoint)
  /\ UNCHANGED <<source, context, index, nextCodePoint, line, column, tokenPos, startPos,
                 precedingLineBreak, token, tokenValue, tokenRegExp, reported,
                 called, entryIndex, entryLineColumn, valuesKept, entryCoherent, iterations,
                 slowPath, multiUnit, codePoint, raw, rawFromStart, sawError, ended>>

SpecFromCodePoint == InitFromCodePoint /\ [][FromCodePoint]_vars

\* The sources with surrogates.
SpecSurrogates == InitOver(SurrogateSources) /\ [][Next]_vars

\* A caller that scans one source under one context, and keeps calling: the
\* first call chooses the context, every later call passes the same one.
NextTokenSameContext == \E ctx \in Contexts : (called => ctx = context) /\ NextToken(ctx)

\* The sources scanned to the end: erroneous units, line terminators and
\* tokens, the fixed prefixes with a tail, and regular expressions.
ScanSources ==
  SeqsUpTo(ErrorUnits, MaxScanLen) \cup SeqsUpTo(LineUnits, MaxScanLen)
    \cup {pre \o tail : pre \in Prefixes, tail \in SeqsUpTo(TailUnits, MaxScanTail)}
    \cup {<<Slash>> \o s : s \in SeqsUpTo(RegExpUnits, MaxScanLen)}

SpecScanToEnd ==
  /\ InitOver(ScanSources)
  /\ [][NextTokenSameContext]_vars
  /\ WF_vars(NextTokenSameContext)

\* =========================================================== the properties

\* The text of each punctuator kind.
Spelling ==
  [RightBrace |-> <<125>>, LeftBrace |-> <<123>>, Comma |-> <<44>>, Colon |-> <<58>>,
   Complement |-> <<126>>, LeftParen |-> <<40>>, RightParen |-> <<41>>,
   Semicolon |-> <<59>>, LeftBracket |-> <<91>>, RightBracket |-> <<93>>,
   Period |-> <<46>>, Ellipsis |-> <<46, 46, 46>>,
   LessThan |-> <<60>>, ShiftLeft |-> <<60, 60>>, ShiftLeftAssign |-> <<60, 60, 61>>,
   LessThanOrEqual |-> <<60, 61>>,
   QuestionMark |-> <<63>>, Coalesce |-> <<63, 63>>, QuestionMarkPeriod |-> <<63, 46>>,
   Assign |-> <<61>>, LooseEqual |-> <<61, 61>>, StrictEqual |-> <<61, 61, 61>>,
   Arrow |-> <<61, 62>>,
   Negate |-> <<33>>, LooseNotEqual |-> <<33, 61>>, StrictNotEqual |-> <<33, 61, 61>>,
   Modulo |-> <<37>>, ModuloAssign |-> <<37, 61>>,
   Multiply |-> <<42>>, MultiplyAssign |-> <<42, 61>>, Exponentiate |-> <<42, 42>>,
   ExponentiateAssign |-> <<42, 42, 61>>,
   BitwiseXor |-> <<94>>, BitwiseXorAssign |-> <<94, 61>>,
   Add |-> <<43>>, Increment |-> <<43, 43>>, AddAssign |-> <<43, 61>>,
   Subtract |-> <<45>>, Decrement |-> <<45, 45>>, SubtractAssign |-> <<45, 61>>,
   Divide |-> <<47>>, DivideAssign |-> <<47, 61>>,
   BitwiseOr |-> <<124>>, LogicalOr |-> <<124, 124>>, BitwiseOrAssign |-> <<124, 61>>,
   GreaterThan |-> <<62>>, GreaterThanOrEqual |-> <<62, 61>>, ShiftRight |-> <<62, 62>>,
   ShiftRightAssign |-> <<62, 62, 61>>, LogicalShiftRight |-> <<62, 62, 62>>,
   LogicalShiftRightAssign |-> <<62, 62, 62, 61>>,
   BitwiseAnd |-> <<38>>, LogicalAnd |-> <<38, 38>>, BitwiseAndAssign |-> <<38, 61>>]

PunctuatorKinds == DOMAIN Spelling

\* Horizontal whitespace: tab, VT, FF, space and the exotic whitespace.
IsWhiteSpace(c) == c \in {9, 11, 12, Space} \/ isExoticECMAScriptWhitespace(c)

\* Whether a line terminator ends at offset i + 1 that is not the CR of a
\* CR LF pair: CR LF is one terminator, counted at its LF.
EndsLineBreak(i) ==
  /\ IsLineTerminator(charCodeAt(i))
  /\ ~(charCodeAt(i) = CarriageReturn /\ charCodeAt(i + 1) = LineFeed)

\* The number of line terminators lying wholly before offset n.
LineBreaksBefore(n) == Cardinality({i \in 0..(n - 1) : i < length /\ EndsLineBreak(i)})

\* The offset just past the last line terminator unit before offset n (0 if none).
LineStartBefore(n) ==
  LET ends == {i + 1 : i \in {j \in 0..(n - 1) : IsLineTerminator(charCodeAt(j))}}
  IN IF ends = {} THEN 0 ELSE CHOOSE m \in ends : \A k \in ends : k <= m

\* Whether some unit of source[from..to) is a line terminator.
HasLineTerminator(from, to) == \E i \in from..(to - 1) : IsLineTerminator(charCodeAt(i))

\* ----------------------------------------------------------------------------
\* C1 (monotonic cursor): every call that returns a kind other than
\* EndOfSource, Error included, leaves index strictly greater than it was when
\* the call began.
C1_MonotonicCursor == token # "EndOfSource" => index > entryIndex

\* C2 (index bound): in every reachable state 0 <= index <= length.
C2_IndexBound == 0 <= index /\ index <= length

\* C3 (cached unit): after every call nextCodePoint is source[index], or the
\* end-of-source value when index = length.
C3_CachedUnit == nextCodePoint = charCodeAt(index)

\* C4 (line counting): after every call line is 1 plus the number of line
\* terminators strictly before index, CR LF counting as one; a source that is
\* only CR LF ends with line = 2 and column = 0.
C4_LineCounting ==
  /\ line = 1 + LineBreaksBefore(index)
  /\ (source = <<CarriageReturn, LineFeed>> /\ ended) => (line = 2 /\ column = 0)

\* The call consumed only whitespace, line terminators and punctuator units
\* and returned a punctuator or the end of the source.
OnlyPunctuatorsScanned ==
  /\ token \in PunctuatorKinds \cup {"EndOfSource"}
  /\ \A i \in entryIndex..(index - 1) :
       \/ IsWhiteSpace(charCodeAt(i)) \/ IsLineTerminator(charCodeAt(i))
       \/ \E k \in PunctuatorKinds : \E j \in 1..Len(Spelling[k]) : Spelling[k][j] = charCodeAt(i)

\* C5 (column tracking): after a call that scans only whitespace, line
\* terminators and punctuators, column is the distance from the end of the
\* last line terminator before index (or from 0) to index.
C5_ColumnTracking ==
  OnlyPunctuatorsScanned => column = index - LineStartBefore(index)

\* C6 (preceding line break): after every call precedingLineBreak is set
\* exactly when a line terminator lies between the index at call entry and
\* tokenPos.
C6_PrecedingLineBreak ==
  (precedingLineBreak = 1) <=> HasLineTerminator(entryIndex, tokenPos)

\* C7 (token span): after every call tokenPos <= index, the slice
\* source[tokenPos..index] of a punctuator is that punctuator's text, and the
\* slice of EndOfSource is empty.
C7_TokenSpan ==
  /\ tokenPos <= index
  /\ token \in PunctuatorKinds => slice(tokenPos, index) = Spelling[token]
  /\ ended => (token = "EndOfSource" => tokenPos = index)

\* C8 as stated (raw round-trip): scanning a valid source to EndOfSource, the
\* slices source[tokenPos..index] of the calls concatenate to the source.
C8_RawRoundTrip == (ended /\ ~sawError) => raw = source

\* C8 amended: scanning a valid source to EndOfSource, the slices
\* source[startPos..index] of the calls concatenate to the source.
C8_RawRoundTripFromStartPos == (ended /\ ~sawError) => rawFromStart = source

\* C8: a source of two tokens with whitespace between them was scanned to
\* its end, and the slices from tokenPos lost the whitespace.
C8_Witness ==
  /\ ended /\ ~sawError
  /\ source = <<Semicolon, Space, Semicolon>>
  /\ rawFromStart = source
  /\ raw # source

\* C9 (diagnostic implies Error): a call that records a diagnostic returns
\* Token.Error.
C9_DiagnosticImpliesError == reported # <<>> => token = "Error"

\* C10 (Error implies diagnostic): a call that returns Token.Error has
\* recorded a diagnostic.
C10_ErrorImpliesDiagnostic == token = "Error" => reported # <<>>

\* ----------------------------------------------------------------------------
\* Whether the source continues with the units s from offset i on.
StartsWithAt(i, s) == \A k \in 1..Len(s) : charCodeAt(i + k - 1) = s[k]

RECURSIVE SkipBlank(_)
\* The offset of the first unit at or after i that is neither whitespace nor
\* a line terminator (length if there is none).
SkipBlank(i) ==
  IF i < length /\ (IsWhiteSpace(charCodeAt(i)) \/ IsLineTerminator(charCodeAt(i)))
  THEN SkipBlank(i + 1) ELSE i

\* The first unit that is not blank, from where the latest call began.
FirstUnitPos == SkipBlank(entryIndex)

\* The errors the latest call reported, in order.
reportedErrors == [i \in DOMAIN reported |-> reported[i].error]

\* The latest state is that of a call entered in a consistent state: index
\* within the source and nextCodePoint the unit at index.
Entered == called /\ entryCoherent

\* The latest call returned a token that begins at offset t.
TokenAt(t) == token # "EndOfSource" /\ tokenPos = t

HtmlOpen == <<LessThan, Exclamation, Hyphen, Hyphen>>
HtmlClose == <<Hyphen, Hyphen, GreaterThan>>

\* C11 (HTML open-comment gating): a call entered in a consistent state whose
\* first unit after blanks begins `<!--' skips it as a comment only when the
\* context has neither Module nor DisableWebCompat; with Module it returns
\* LessThan with exactly the `<' consumed.
C11_HtmlOpenCommentGating ==
  (Entered /\ StartsWithAt(FirstUnitPos, HtmlOpen)) =>
    /\ (Module \in context \/ DisableWebCompat \in context) => TokenAt(FirstUnitPos)
    /\ Module \in context => (token = "LessThan" /\ index = FirstUnitPos + 1)

\* No token lies between the start of the line of offset t and t, for t the
\* first unit after the blanks the latest call began with: the call began at
\* the start of the source or just past a line terminator, or a line
\* terminator is among the blanks.
AtLineStart(t) ==
  \/ entryIndex = 0
  \/ IsLineTerminator(charCodeAt(entryIndex - 1))
  \/ HasLineTerminator(entryIndex, t)

\* C12 (HTML close-comment): a call entered in a consistent state whose first
\* unit after blanks begins `-->': without Module and with no token before it
\* on its line, the rest of the line is skipped as a comment, or, with
\* DisableWebCompat, HtmlCommentInWebCompat is recorded and Error returned;
\* in every other case Decrement is returned with exactly two units consumed.
C12_HtmlCloseComment ==
  (Entered /\ StartsWithAt(FirstUnitPos, HtmlClose)) =>
    IF Module \notin context /\ AtLineStart(FirstUnitPos)
    THEN IF DisableWebCompat \in context
         THEN token = "Error" /\ reportedErrors = <<"HtmlCommentInWebCompat">>
         ELSE token = "EndOfSource" \/ HasLineTerminator(FirstUnitPos, tokenPos)
    ELSE token = "Decrement" /\ tokenPos = FirstUnitPos /\ index = FirstUnitPos + 2

\* C13 (optional-chaining back-off): a call entered in a consistent state on
\* `?': with OptionsNext, `??' is Coalesce, `?.' before a decimal digit is
\* QuestionMark with one unit consumed, `?.' before anything else or the end
\* of the source is QuestionMarkPeriod with two units consumed; without
\* OptionsNext the call returns QuestionMark with one unit consumed.
C13_OptionalChainingBackOff ==
  LET t == FirstUnitPos
  IN (Entered /\ charCodeAt(t) = QuestionMark) =>
       /\ tokenPos = t
       /\ IF OptionsNext \in context /\ charCodeAt(t + 1) = QuestionMark
          THEN token = "Coalesce" /\ index = t + 2
          ELSE IF /\ OptionsNext \in context
                  /\ charCodeAt(t + 1) = Period
                  /\ charCodeAt(t + 2) \notin Zero..Nine
          THEN token = "QuestionMarkPeriod" /\ index = t + 2
          ELSE token = "QuestionMark" /\ index = t + 1

\* C14 (slash disambiguation order): a call entered in a consistent state on
\* `/': before `/' or `*' a comment is skipped whatever AllowRegExp is;
\* otherwise with AllowRegExp the regexp scanner is entered, also before `=';
\* otherwise `/=' is DivideAssign with two units consumed and any other
\* follower gives Divide with one unit consumed.
C14_SlashDisambiguation ==
  LET t == FirstUnitPos
      follower == charCodeAt(t + 1)
  IN (Entered /\ charCodeAt(t) = Slash) =>
       IF follower \in {Slash, Asterisk}
       THEN \/ token = "EndOfSource"
            \/ tokenPos > t
            \/ token = "Error" /\ reportedErrors = <<"UnterminatedComment">>
       ELSE IF AllowRegExp \in context
       THEN /\ tokenPos = t
            /\ \/ token = "RegularExpression" /\ tokenRegExp # undefined
               \/ token = "Error" /\ reported # <<>>
       ELSE IF follower = EqualSign
       THEN token = "DivideAssign" /\ tokenPos = t /\ index = t + 2
       ELSE token = "Divide" /\ tokenPos = t /\ index = t + 1

\* C14: `/=/' was scanned with AllowRegExp as a regular expression whose
\* pattern is `='.
C14_Witness ==
  /\ Entered /\ entryIndex = 0
  /\ source = <<Slash, EqualSign, Slash>>
  /\ AllowRegExp \in context
  /\ token = "RegularExpression"
  /\ tokenRegExp = [pattern |-> <<EqualSign>>, flags |-> <<>>]
  /\ index = 3

\* ----------------------------------------------------------------------------
RECURSIVE BodyEnd(_, _, _)
\* The offset of the first `/' at or after offset i that is neither escaped
\* nor inside a class, given whether the unit at i is escaped and whether it
\* is inside a class; -1 if an unescaped line terminator or the end of the
\* source comes first.
BodyEnd(i, escaped, inClass) ==
  IF i >= length THEN -1
  ELSE LET c == charCodeAt(i)
       IN IF escaped THEN BodyEnd(i + 1, FALSE, inClass)
          ELSE IF IsLineTerminator(c) THEN -1
          ELSE IF c = Backslash THEN BodyEnd(i + 1, TRUE, inClass)
          ELSE IF c = LeftBracket THEN BodyEnd(i + 1, FALSE, TRUE)
          ELSE IF c = RightBracket THEN BodyEnd(i + 1, FALSE, FALSE)
          ELSE IF c = Slash /\ ~inClass THEN i
          ELSE BodyEnd(i + 1, FALSE, inClass)

RECURSIVE FlagsEnd(_)
\* The offset just past the maximal run of identifier-part units from i on.
FlagsEnd(i) == IF i < length /\ isIdentifierPart(charCodeAt(i)) THEN FlagsEnd(i + 1) ELSE i

\* The latest call, entered in a consistent state, went into the regexp
\* scanner on the `/' at FirstUnitPos.
RegExpEntered ==
  /\ Entered
  /\ charCodeAt(FirstUnitPos) = Slash
  /\ charCodeAt(FirstUnitPos + 1) \notin {Slash, Asterisk}
  /\ AllowRegExp \in context

FlagDiagnostics == {"DuplicateRegExpFlag", "UnexpectedTokenRegExpFlag"}

\* C15 (regexp body delimiting): the body ends at the first `/' that is
\* neither escaped nor inside a class; a returned RegularExpression has the
\* slice between the two `/' as its pattern, the maximal run of
\* identifier-part units after the closing `/' as its flags and index just
\* past the flags; a body so delimited is never reported as unterminated by
\* the scan of the body.
C15_RegExpBodyDelimiting ==
  LET open == FirstUnitPos
      close == BodyEnd(open + 1, FALSE, FALSE)
  IN RegExpEntered =>
       /\ token = "RegularExpression" =>
            /\ close >= 0
            /\ tokenPos = open
            /\ tokenRegExp = [pattern |-> slice(open + 1, close),
                              flags |-> slice(close + 1, FlagsEnd(close + 1))]
            /\ index = FlagsEnd(close + 1)
       /\ close >= 0 =>
            \/ token = "RegularExpression"
            \/ /\ token = "Error"
               /\ reported # <<>>
               /\ reported[Len(reported)].error \in FlagDiagnostics

\* C15: `/[/]/' was scanned as a regular expression whose pattern is `[/]',
\* the `/' inside the class not ending the body.
C15_Witness ==
  /\ RegExpEntered /\ entryIndex = 0
  /\ source = <<Slash, LeftBracket, Slash, RightBracket, Slash>>
  /\ token = "RegularExpression"
  /\ tokenRegExp = [pattern |-> <<LeftBracket, Slash, RightBracket>>, flags |-> <<>>]
  /\ index = 5

\* C16 (unterminated regexp): when an unescaped line terminator or the end of
\* the source comes before the closing `/', the call records
\* UnterminatedRegExp, returns Error and leaves tokenRegExp and tokenValue as
\* they were.
C16_UnterminatedRegExp ==
  (RegExpEntered /\ BodyEnd(FirstUnitPos + 1, FALSE, FALSE) = -1) =>
    /\ token = "Error"
    /\ reportedErrors = <<"UnterminatedRegExp">>
    /\ valuesKept

\* C16: a regular expression was cut short by a line feed inside its class.
C16_Witness ==
  /\ RegExpEntered
  /\ source = <<Slash, LeftBracket, LineFeed, RightBracket, Slash>>
  /\ token = "Error"
  /\ reportedErrors = <<"UnterminatedRegExp">>
  /\ index = 3

\* ----------------------------------------------------------------------------
\* The flag letters the specification accepts: g i m u y s d.
AcceptedFlags == {LowerG, LowerI, LowerM, LowerU, LowerY, LowerS, LowerD}

\* The run of identifier-part units after the closing `/' of the regular
\* expression the latest call went into (<<>> if its body has no end).
FlagRun ==
  LET close == BodyEnd(FirstUnitPos + 1, FALSE, FALSE)
  IN IF close < 0 THEN <<>> ELSE slice(close + 1, FlagsEnd(close + 1))

\* The latest call went into the regexp scanner and the body has an end.
RegExpClosed == RegExpEntered /\ BodyEnd(FirstUnitPos + 1, FALSE, FALSE) >= 0

\* Some unit occurs twice in f.
HasDuplicate(f) == \E i, j \in 1..Len(f) : i # j /\ f[i] = f[j]

\* The units of f.
Units(f) == {f[i] : i \in 1..Len(f)}

\* C17 (duplicate regexp flags): for a run of flags drawn from the accepted
\* letters, DuplicateRegExpFlag is recorded exactly when some letter occurs
\* more than once, and a run in which no letter repeats gives
\* RegularExpression.
C17_DuplicateRegExpFlags ==
  (RegExpClosed /\ Units(FlagRun) \subseteq AcceptedFlags) =>
    /\ ("DuplicateRegExpFlag" \in Units(reportedErrors)) <=> HasDuplicate(FlagRun)
    /\ ~HasDuplicate(FlagRun) => token = "RegularExpression"

\* C18 (accepted regexp flag set): each of g i m u y s d alone after the
\* closing `/' gives RegularExpression with the letter in tokenRegExp.flags;
\* a run with an identifier-part unit outside the seven records
\* UnexpectedTokenRegExpFlag and gives Error.
C18_AcceptedFlagSet ==
  RegExpClosed =>
    /\ (Len(FlagRun) = 1 /\ FlagRun[1] \in AcceptedFlags) =>
         (token = "RegularExpression" /\ tokenRegExp.flags = FlagRun)
    /\ (~HasDuplicate(FlagRun) /\ ~(Units(FlagRun) \subseteq AcceptedFlags)) =>
         (token = "Error" /\ "UnexpectedTokenRegExpFlag" \in Units(reportedErrors))

\* ----------------------------------------------------------------------------
\* The punctuator kinds whose text the source continues with at offset t.
KindsAt(t) == {k \in PunctuatorKinds : StartsWithAt(t, Spelling[k])}

\* The kind of the longest punctuator that the source continues with at t.
LongestKindAt(t) ==
  CHOOSE k \in KindsAt(t) : \A j \in KindsAt(t) : Len(Spelling[j]) <= Len(Spelling[k])

RECURSIVE LineEnd(_)
\* The offset of the first line terminator at or after i (length if none).
LineEnd(i) == IF i >= length \/ IsLineTerminator(charCodeAt(i)) THEN i ELSE LineEnd(i + 1)

RECURSIVE CommentClose(_)
\* The offset just past the first `*/' at or after i (-1 if there is none).
CommentClose(i) ==
  IF i + 1 >= length THEN -1
  ELSE IF charCodeAt(i) = Asterisk /\ charCodeAt(i + 1) = Slash THEN i + 2
  ELSE CommentClose(i + 1)

RECURSIVE OnlyTrivia(_, _, _)
\* Nothing but whitespace, line terminators and comments lies between offset
\* i and the end of the source, under context ctx, lineStart telling whether
\* no token lies between the start of the line of i and i.  The comments are
\* `//' to the end of the line, a closed `/* */', `<!--' to the end of the
\* line with neither Module nor DisableWebCompat, and `-->' to the end of
\* the line at the start of a line with neither Module nor DisableWebCompat.
OnlyTrivia(i, ctx, lineStart) ==
  LET webCompat == Module \notin ctx /\ DisableWebCompat \notin ctx
      close == CommentClose(i + 2)
  IN IF i >= length THEN TRUE
     ELSE IF IsLineTerminator(charCodeAt(i)) THEN OnlyTrivia(i + 1, ctx, TRUE)
     ELSE IF IsWhiteSpace(charCodeAt(i)) THEN OnlyTrivia(i + 1, ctx, lineStart)
     ELSE IF StartsWithAt(i, <<Slash, Slash>>) THEN OnlyTrivia(LineEnd(i + 2), ctx, lineStart)
     ELSE IF StartsWithAt(i, <<Slash, Asterisk>>)
     THEN close >= 0 /\ OnlyTrivia(close, ctx, lineStart \/ HasLineTerminator(i, close))
     ELSE IF StartsWithAt(i, HtmlOpen) /\ webCompat
     THEN OnlyTrivia(LineEnd(i + 4), ctx, lineStart)
     ELSE IF StartsWithAt(i, HtmlClose) /\ webCompat /\ lineStart
     THEN OnlyTrivia(LineEnd(i + 3), ctx, lineStart)
     ELSE FALSE

\* The latest call began at the start of a line.
EnteredAtLineStart == entryIndex = 0 \/ IsLineTerminator(charCodeAt(entryIndex - 1))

\* C19 (end of source): a call entered in a consistent state returns
\* EndOfSource exactly when nothing but whitespace, line terminators and
\* comments remains from index to the end of the source; once EndOfSource has
\* been returned, every later call returns EndOfSource and leaves index, line
\* and column as they were.
C19_EndOfSource ==
  /\ Entered => (token = "EndOfSource" <=> OnlyTrivia(entryIndex, context, EnteredAtLineStart))
  /\ ended => token = "EndOfSource"
  /\ (ended /\ entryIndex >= length) => (index = entryIndex /\ <<line, column>> = entryLineColumn)

\* ----------------------------------------------------------------------------
RECURSIVE TriviaUpTo(_, _, _, _)
\* source[i..to) is made of whole pieces of whitespace, line terminators and
\* comments, under context ctx, lineStart telling whether no token lies
\* between the start of the line of i and i (the comments are those of
\* OnlyTrivia).
TriviaUpTo(i, to, ctx, lineStart) ==
  LET webCompat == Module \notin ctx /\ DisableWebCompat \notin ctx
      close == CommentClose(i + 2)
  IN IF i >= to THEN i = to
     ELSE IF IsLineTerminator(charCodeAt(i)) THEN TriviaUpTo(i + 1, to, ctx, TRUE)
     ELSE IF IsWhiteSpace(charCodeAt(i)) THEN TriviaUpTo(i + 1, to, ctx, lineStart)
     ELSE IF StartsWithAt(i, <<Slash, Slash>>) THEN TriviaUpTo(LineEnd(i + 2), to, ctx, lineStart)
     ELSE IF StartsWithAt(i, <<Slash, Asterisk>>)
     THEN close >= 0 /\ TriviaUpTo(close, to, ctx, lineStart \/ HasLineTerminator(i, close))
     ELSE IF StartsWithAt(i, HtmlOpen) /\ webCompat
     THEN TriviaUpTo(LineEnd(i + 4), to, ctx, lineStart)
     ELSE IF StartsWithAt(i, HtmlClose) /\ webCompat /\ lineStart
     THEN TriviaUpTo(LineEnd(i + 3), to, ctx, lineStart)
     ELSE FALSE

\* C21 (call bookkeeping): after every call startPos is the value index had
\* when the call began, startPos <= tokenPos <= index, source[startPos..tokenPos]
\* holds only whitespace, line terminators and comments, and parser.token is
\* the kind the call returned (the model assigns token from the returned kind,
\* so that part is the assignment itself).
C21_CallBookkeeping ==
  called =>
    /\ startPos = entryIndex
    /\ startPos <= tokenPos /\ tokenPos <= index
    /\ TriviaUpTo(startPos, tokenPos, context, EnteredAtLineStart)

\* ----------------------------------------------------------------------------
\* The iterations of `loop' in the latest call.
IterationsOf(loop) == {k \in DOMAIN iterations : iterations[k].loop = loop}

\* C22 (single-call termination): in a call entered in a consistent state,
\* every iteration of the dispatcher loop that does not return, and every
\* iteration of the regexp body loop and of the flag loop that goes on to the
\* next, leaves index strictly greater than it found it, and the body loop and
\* the flag loop are left with index <= length.
C22_SingleCallTermination ==
  Entered =>
    /\ \A k \in DOMAIN iterations :
         ~iterations[k].exit => iterations[k].to > iterations[k].from
    /\ \A k \in IterationsOf("body") : iterations[k].to > iterations[k].from
    /\ \A k \in IterationsOf("body") \cup IterationsOf("flags") :
         iterations[k].exit => iterations[k].to <= length

\* ----------------------------------------------------------------------------
\* C23 (scanning reaches the end): a caller that keeps calling nextToken on
\* one source with one context, going on after Error tokens, eventually
\* receives EndOfSource.
C23_ScanningReachesEnd == <>(called /\ token = "EndOfSource")

\* ----------------------------------------------------------------------------
IsHighSurrogate(c) == c >= HighSurrogate /\ c < LowSurrogate
IsLowSurrogate(c) == c >= LowSurrogate /\ c < LowSurrogate + SurrogateBits + 1

\* The scalar of the pair hi, lo.
PairScalar(hi, lo) == SupplementaryBase + (hi - HighSurrogate) * (SurrogateBits + 1) + (lo - LowSurrogate)

\* C24 (dispatcher surrogate handling): a call entered in a consistent state
\* whose first unit after blanks is a high surrogate: before a low surrogate
\* the pair is combined and the scalar looked up, and the call either records
\* InvalidSMPCharacter and returns Error or enters the identifier slow path
\* with nextCodePoint the scalar; before anything else the call does not enter
\* the identifier slow path.
C24_DispatcherSurrogates ==
  LET hi == charCodeAt(FirstUnitPos)
      lo == charCodeAt(FirstUnitPos + 1)
  IN (Entered /\ IsHighSurrogate(hi)) =>
       IF IsLowSurrogate(lo)
       THEN IF IsIDStart(PairScalar(hi, lo))
            THEN slowPath = <<PairScalar(hi, lo)>>
            ELSE token = "Error" /\ reportedErrors = <<"InvalidSMPCharacter">> /\ slowPath = <<>>
       ELSE slowPath = <<>>

\* ----------------------------------------------------------------------------
\* C26 (consumeMultiUnitCodePoint frame): every call of
\* consumeMultiUnitCodePoint that returns 0 or InvalidCodePoint leaves index,
\* nextCodePoint, line and column as they were; a call that returns 1 leaves
\* index one further, on the low surrogate, and nextCodePoint the scalar of
\* the pair, in 0x10000..0x10FFFF.
C26_ConsumeMultiUnitFrame ==
  \A k \in DOMAIN multiUnit :
    LET m == multiUnit[k]
    IN IF m.result = 1
       THEN /\ m.after.index = m.before.index + 1
            /\ IsLowSurrogate(charCodeAt(m.after.index))
            /\ m.after.nextCodePoint = PairScalar(m.hi, charCodeAt(m.after.index))
            /\ m.after.nextCodePoint \in SupplementaryBase..MaxCodePoint
       ELSE m.after = m.before

\* ----------------------------------------------------------------------------
\* C25 (fromCodePoint): the string made of a code point in 0..0xFFFF is the
\* one unit that is the code point; the string made of a code point in
\* 0x10000..0x10FFFF is a high surrogate and a low surrogate that the
\* scanner's formula 0x10000 + ((hi & 0x3ff) << 10) + (lo & 0x3ff) combines
\* back to the code point.
C25_FromCodePoint ==
  units # <<>> =>
    IF codePoint < SupplementaryBase
    THEN units = <<codePoint>>
    ELSE /\ Len(units) = 2
         /\ IsHighSurrogate(units[1])
         /\ IsLowSurrogate(units[2])
         /\ SupplementaryBase + BitAnd(units[1], SurrogateBits) * 1024
              + BitAnd(units[2], SurrogateBits) = codePoint

====
